---- MODULE Spec2Model ----
(***************************************************************************)
(* State machine of the notes front end (src/notes_frontend/src/App.js):   *)
(* the React state of App, the requests it has in flight against the      *)
(* remote store and the auth client, the search debounce timer, and the    *)
(* remote notes table the requests act on.                                 *)
(*                                                                         *)
(* An async handler is split where it awaits: the part before the await    *)
(* issues a request that carries the values the handler's closure captured *)
(* (user, search, editNote, selectedNote of the render that created it);   *)
(* the remote side processes the request at some later step; the part      *)
(* after the await runs when the response is delivered.                    *)
(***************************************************************************)
EXTENDS Integers, Sequences, FiniteSets, TLC

\* ---------------------------------------------------------------- bounds
MaxInflight == 2   \* requests and responses in flight at one time
MaxOps == 4        \* user actions and session notifications in one behaviour
TickMs == 150      \* granularity of time

\* ------------------------------------------------------- program values
DebounceMs == 300  \* setTimeout(..., 300)

NoUser == 0
NoId == 0
Users == {1, 2}

\* Strings are sequences of characters, so that trim and ilike are computed.
Titles == {<<" ">>, <<"A">>}
Contents == {"x"}
Terms == {<<>>, <<"a">>, <<"b">>}

\* null as the value of selectedNote
Null == [id |-> NoId, user_id |-> NoUser, title |-> <<"?">>, content |-> "?", updated_at |-> 0]
EmptyDraft == [title |-> <<>>, content |-> ""]

\* error.message of a failed request: told apart by the request that failed
ErrorMessage(kind) == kind

VARIABLES
  user,          \* useState(null): 0 or the id of the signed-in user
  authView,      \* useState('sign-in')
  notes,         \* useState([]): the visible collection
  loadingNotes,  \* useState(false)
  selectedNote,  \* useState(null): Null or a note object
  editNote,      \* useState({title:'', content:''}): the draft
  search,        \* useState('')
  adding,        \* useState(false)
  alert,         \* the last message shown by alert(), "" before the first
  timers,        \* pending setTimeout callbacks of the debounce effect
  net,           \* requests and responses in flight, in order of issue
  session,       \* the session the auth client holds
  store,         \* rows of the remote 'notes' table
  nextId,        \* next id the store assigns
  clock,         \* last timestamp handed out
  sinceChange,   \* history: ms since the last search change (capped)
  dbLoads,       \* history: loads the debounce issued since the last search change
  burst,         \* history: search changes less than 300 ms apart, up to the last one
  acked,         \* history: ids of notes whose create was acknowledged
  ops            \* history: user and session events so far

uiVars == <<user, authView, notes, loadingNotes, selectedNote, editNote, search, adding, alert>>
remoteVars == <<session, store, nextId, clock>>
histVars == <<sinceChange, dbLoads, burst, acked>>

\* one more user or session event, within the bound
CountOp == ops < MaxOps /\ ops' = ops + 1
vars == <<user, authView, notes, loadingNotes, selectedNote, editNote, search, adding, alert,
          timers, net, session, store, nextId, clock, sinceChange, dbLoads, burst, acked, ops>>

\* ------------------------------------------------------- string functions
IsSpace(c) == c = " "

RECURSIVE TrimStart(_)
TrimStart(s) == IF s # <<>> /\ IsSpace(Head(s)) THEN TrimStart(Tail(s)) ELSE s

RECURSIVE TrimEnd(_)
TrimEnd(s) ==
  IF s # <<>> /\ IsSpace(s[Len(s)]) THEN TrimEnd(SubSeq(s, 1, Len(s) - 1)) ELSE s

\* String.prototype.trim
Trim(s) == TrimEnd(TrimStart(s))

Lower(c) == CASE c = "A" -> "a" [] c = "B" -> "b" [] OTHER -> c

\* SQL LIKE with case folded on both sides (ILIKE): % any run, _ any one character
RECURSIVE LikeMatch(_, _)
LikeMatch(p, s) ==
  IF p = <<>> THEN s = <<>>
  ELSE IF Head(p) = "%"
    THEN LikeMatch(Tail(p), s) \/ (s # <<>> /\ LikeMatch(p, Tail(s)))
    ELSE /\ s # <<>>
         /\ (Head(p) = "_" \/ Lower(Head(p)) = Lower(Head(s)))
         /\ LikeMatch(Tail(p), Tail(s))

\* .ilike('title', `%${search}%`)
Ilike(title, term) == LikeMatch(<<"%">> \o term \o <<"%">>, title)

\* ------------------------------------------------------------ remote store
Range(s) == {s[i] : i \in DOMAIN s}

RECURSIVE OrderDesc(_)
\* .order('updated_at', { ascending: false })
OrderDesc(rows) ==
  IF rows = {} THEN <<>>
  ELSE LET top == CHOOSE r \in rows :
                    \A q \in rows : r.updated_at > q.updated_at
                                    \/ (r.updated_at = q.updated_at /\ r.id >= q.id)
       IN <<top>> \o OrderDesc(rows \ {top})

\* the query with like in place of ilike
QueryCaseSensitive(rows, owner, term) ==
  OrderDesc({r \in rows : /\ r.user_id = owner
                          /\ (term # <<>> => \E k \in 0..Len(r.title) :
                                k + Len(term) <= Len(r.title)
                                /\ SubSeq(r.title, k + 1, k + Len(term)) = term)})

\* the query fetchNotes builds: owner filter, optional title filter, ordering
Query(rows, owner, term) ==
  OrderDesc({r \in rows : /\ r.user_id = owner
                          /\ (term # <<>> => Ilike(r.title, term))})

\* the rows of the table when the application is opened
SeedStore ==
  { [id |-> 1, user_id |-> 1, title |-> <<"a">>, content |-> "x", updated_at |-> 1],
    [id |-> 2, user_id |-> 1, title |-> <<"b">>, content |-> "", updated_at |-> 2] }

\* ------------------------------------------------------------------ messages
\* A request carries what the closure that issued it captured: owner (user.id)
\* and term (search) for fetchNotes, the note id, the draft and the client's
\* timestamp for a write; st is "req" until the store has executed it, then
\* "ok" with data (a load's rows) or id (the id given to an inserted row).
\* seen is history: the creates acknowledged when a load was issued.
Msg(kind, st, owner, term, id, title, content, ts, data, seen) ==
  [kind |-> kind, st |-> st, owner |-> owner, term |-> term, id |-> id,
   title |-> title, content |-> content, ts |-> ts, data |-> data, seen |-> seen]

LoadReq(owner, term, seen) == Msg("load", "req", owner, term, NoId, <<>>, "", 0, <<>>, seen)
InsertReq(owner, term, title, content) ==
  Msg("insert", "req", owner, term, NoId, title, content, 0, <<>>, {})
UpdateReq(owner, term, id, title, content, ts) ==
  Msg("update", "req", owner, term, id, title, content, ts, <<>>, {})
DeleteReq(owner, term, id) == Msg("delete", "req", owner, term, id, <<>>, "", 0, <<>>, {})
AuthReq(kind, u) == Msg(kind, "req", u, <<>>, NoId, <<>>, "", 0, <<>>, {})

Remove(s, i) == SubSeq(s, 1, i - 1) \o SubSeq(s, i + 1, Len(s))
HasRoom == Len(net) < MaxInflight

Max(a, b) == IF a > b THEN a ELSE b
Min(a, b) == IF a < b THEN a ELSE b

\* ---------------------------------------------------------------------- Init
\* The state after mount: getUser() is in flight (line 43), for the session the
\* auth client restored, if any.
Init ==
  /\ user = NoUser
  /\ authView = "sign-in"
  /\ notes = <<>>
  /\ loadingNotes = FALSE
  /\ selectedNote = Null
  /\ editNote = EmptyDraft
  /\ search = <<>>
  /\ adding = FALSE
  /\ alert = ""
  /\ timers = {}
  /\ session \in {NoUser, 1}
  /\ net = <<AuthReq("getUser", session)>>
  /\ store = SeedStore
  /\ nextId = 3
  /\ clock = 2
  /\ sinceChange = DebounceMs
  /\ dbLoads = 0
  /\ burst = 0
  /\ acked = {}
  /\ ops = 0

\* ------------------------------------------------------- synchronous handlers
\* The editor form is rendered (lines 384-388).
EditorShown == user # NoUser /\ (adding \/ selectedNote # Null)

\* handleNoteSelect without line 139: the draft is kept
handleNoteSelectKeepsDraft(n) ==
  /\ user # NoUser
  /\ n \in Range(notes)
  /\ selectedNote' = n
  /\ editNote' = editNote
  /\ adding' = FALSE
  /\ UNCHANGED <<user, authView, notes, loadingNotes, search, alert, timers, net>>
  /\ UNCHANGED <<remoteVars, histVars>>
  /\ CountOp

handleNoteSelect(n) ==
  /\ user # NoUser
  /\ n \in Range(notes)
  /\ selectedNote' = n
  /\ editNote' = [title |-> n.title, content |-> n.content]
  /\ adding' = FALSE
  /\ UNCHANGED <<user, authView, notes, loadingNotes, search, alert, timers, net>>
  /\ UNCHANGED <<remoteVars, histVars>>
  /\ CountOp

handleNoteAddClick ==
  /\ user # NoUser
  /\ ~adding                       \* the button is disabled while adding
  /\ adding' = TRUE
  /\ selectedNote' = Null
  /\ editNote' = EmptyDraft
  /\ UNCHANGED <<user, authView, notes, loadingNotes, search, alert, timers, net>>
  /\ UNCHANGED <<remoteVars, histVars>>
  /\ CountOp

handleNoteEditChange(name, value) ==
  /\ EditorShown
  /\ \/ name = "title" /\ value \in Titles
     \/ name = "content" /\ value \in Contents
  /\ editNote' = [editNote EXCEPT ![name] = value]
  /\ UNCHANGED <<user, authView, notes, loadingNotes, selectedNote, search, adding, alert,
                 timers, net>>
  /\ UNCHANGED <<remoteVars, histVars>>
  /\ CountOp

\* setAuthView toggle of the auth form (line 256)
toggleAuthView ==
  /\ user = NoUser
  /\ authView' = IF authView = "sign-in" THEN "sign-up" ELSE "sign-in"
  /\ UNCHANGED <<user, notes, loadingNotes, selectedNote, editNote, search, adding, alert,
                 timers, net>>
  /\ UNCHANGED <<remoteVars, histVars>>
  /\ CountOp

\* the effect without its cleanup
DebounceEffectNoCleanup(old, u, term) ==
  IF u = NoUser THEN old
  ELSE old \cup {[owner |-> u, term |-> term, left |-> DebounceMs]}

\* The debounce effect, run after a render in which search changed: the cleanup
\* of the previous run clears its timer, then a new timer is set unless !user.
DebounceEffect(old, u, term) ==
  IF u = NoUser THEN {}
  ELSE {[owner |-> u, term |-> term, left |-> DebounceMs]}

handleSearchChange(value) ==
  /\ user # NoUser
  /\ value \in Terms
  /\ value # search                \* setSearch of the same value: no re-render
  /\ search' = value
  /\ timers' = DebounceEffect(timers, user, value)
  /\ sinceChange' = 0
  /\ dbLoads' = 0
  /\ burst' = IF sinceChange < DebounceMs THEN Min(2, burst + 1) ELSE 1
  /\ UNCHANGED <<user, authView, notes, loadingNotes, selectedNote, editNote, adding, alert,
                 net, acked>>
  /\ UNCHANGED remoteVars
  /\ CountOp

\* TickMs pass; a timer that is due runs before more time passes.
Tick ==
  /\ \A t \in timers : t.left > 0
  /\ timers # {} \/ sinceChange < DebounceMs
  /\ timers' = {[t EXCEPT !.left = Max(0, t.left - TickMs)] : t \in timers}
  /\ sinceChange' = Min(DebounceMs, sinceChange + TickMs)
  /\ UNCHANGED <<uiVars, net, remoteVars, dbLoads, burst, acked>>
  /\ UNCHANGED ops

\* The setTimeout callback: fetchNotes of the render that set the timer.
TimerFire(t) ==
  /\ t \in timers
  /\ t.left = 0
  /\ HasRoom
  /\ timers' = timers \ {t}
  /\ loadingNotes' = TRUE
  /\ net' = Append(net, LoadReq(t.owner, t.term, acked))
  /\ dbLoads' = Min(2, dbLoads + 1)
  /\ UNCHANGED <<user, authView, notes, selectedNote, editNote, search, adding, alert>>
  /\ UNCHANGED <<remoteVars, sinceChange, burst, acked>>
  /\ UNCHANGED ops

\* ------------------------------------------ handlers up to their first await

\* the test without trim
TitleMissingNoTrim(draft) == draft.title = <<>>

\* if (!editNote.title.trim())
TitleMissing(draft) == Trim(draft.title) = <<>>

handleNoteSave ==
  /\ EditorShown
  /\ IF TitleMissing(editNote)
       THEN /\ alert' = "Title is required."
            /\ UNCHANGED <<user, authView, notes, loadingNotes, selectedNote, editNote,
                           search, adding, timers, net, remoteVars, histVars, ops>>
       ELSE /\ HasRoom
            /\ CountOp
            /\ IF adding
                 THEN /\ net' = Append(net, InsertReq(user, search, editNote.title,
                                                      editNote.content))
                      /\ UNCHANGED clock
                 ELSE /\ net' = Append(net, UpdateReq(user, search, selectedNote.id,
                                         editNote.title, editNote.content, clock + 1))
                      /\ clock' = clock + 1
            /\ UNCHANGED <<uiVars, timers, session, store, nextId, histVars>>

\* a handler that does not look at the answer
ConfirmIgnored(answer) == TRUE

\* window.confirm("Delete this note?")
Confirmed(answer) == answer

handleNoteDelete(answer) ==
  /\ user # NoUser
  /\ ~adding                       \* the Delete button is rendered when !adding
  /\ selectedNote # Null
  /\ IF ~Confirmed(answer)
       THEN UNCHANGED vars
       ELSE /\ HasRoom
            /\ CountOp
            /\ net' = Append(net, DeleteReq(user, search, selectedNote.id))
            /\ UNCHANGED <<uiVars, timers, remoteVars, histVars>>

handleLogout ==
  /\ user # NoUser
  /\ HasRoom
  /\ net' = Append(net, AuthReq("signOut", user))
  /\ UNCHANGED <<uiVars, timers, remoteVars, histVars>>
  /\ CountOp

handleSignIn(u) ==
  /\ user = NoUser
  /\ authView = "sign-in"
  /\ HasRoom
  /\ net' = Append(net, AuthReq("signIn", u))
  /\ UNCHANGED <<uiVars, timers, remoteVars, histVars>>
  /\ CountOp

handleSignUp ==
  /\ user = NoUser
  /\ authView = "sign-up"
  /\ HasRoom
  /\ net' = Append(net, AuthReq("signUp", NoUser))
  /\ UNCHANGED <<uiVars, timers, remoteVars, histVars>>
  /\ CountOp

\* ------------------------------------------------ the remote side of a request
StoreKinds == {"load", "insert", "update", "delete"}

\* the store with an update that leaves updated_at as it was
AppliedKeepsTime(rows, m) ==
  CASE m.kind = "insert" ->
         rows \cup {[id |-> nextId, user_id |-> m.owner, title |-> m.title,
                     content |-> m.content, updated_at |-> clock + 1]}
    [] m.kind = "update" ->
         {IF r.id = m.id /\ r.user_id = m.owner
            THEN [r EXCEPT !.title = m.title, !.content = m.content]
            ELSE r : r \in rows}
    [] m.kind = "delete" -> {r \in rows : ~(r.id = m.id /\ r.user_id = m.owner)}
    [] OTHER -> rows

\* what the store does with a request it accepts
Applied(rows, m) ==
  CASE m.kind = "insert" ->
         rows \cup {[id |-> nextId, user_id |-> m.owner, title |-> m.title,
                     content |-> m.content, updated_at |-> clock + 1]}
    [] m.kind = "update" ->
         {IF r.id = m.id /\ r.user_id = m.owner
            THEN [r EXCEPT !.title = m.title, !.content = m.content, !.updated_at = m.ts]
            ELSE r : r \in rows}
    [] m.kind = "delete" -> {r \in rows : ~(r.id = m.id /\ r.user_id = m.owner)}
    [] OTHER -> rows

\* the response to an accepted request
Reply(m) ==
  CASE m.kind = "load" -> [m EXCEPT !.st = "ok", !.data = Query(store, m.owner, m.term)]
    [] m.kind = "insert" -> [m EXCEPT !.st = "ok", !.id = nextId]
    [] OTHER -> [m EXCEPT !.st = "ok"]

\* The store executes a request; its response is then on its way back.
ServerAccept(i) ==
  /\ i \in DOMAIN net
  /\ net[i].kind \in StoreKinds
  /\ net[i].st = "req"
  /\ net' = [net EXCEPT ![i] = Reply(net[i])]
  /\ store' = Applied(store, net[i])
  /\ nextId' = IF net[i].kind = "insert" THEN nextId + 1 ELSE nextId
  /\ clock' = IF net[i].kind = "insert" THEN clock + 1 ELSE clock
  /\ UNCHANGED <<uiVars, timers, session, histVars>>
  /\ UNCHANGED ops

\* The outcome a handler sees when its await on net[i] resumes: the data of an
\* executed store request, or an error for one that was not executed; an auth
\* request resolves either way.
Resolves(i, kind, ok) ==
  /\ i \in DOMAIN net
  /\ net[i].kind = kind
  /\ IF kind \in StoreKinds THEN net[i].st = (IF ok THEN "ok" ELSE "req") ELSE TRUE

\* -------------------------------------------- handlers after their await
\* setSelectedNote((prev) => ({ ...prev, ...editNote })) with the closure's editNote
Merged(prev, title, content) ==
  IF prev = Null
    THEN [id |-> NoId, user_id |-> NoUser, title |-> title, content |-> content,
          updated_at |-> 0]
    ELSE [prev EXCEPT !.title = title, !.content = content]

\* fetchNotes up to its await, called by a closure that captured (owner, term)
fetchNotes(rest, owner, term, seen) ==
  /\ loadingNotes' = TRUE
  /\ net' = Append(rest, LoadReq(owner, term, seen))

\* fetchNotes after its await with fencing: a response is dropped when a load
\* issued later is still in flight
fetchNotesDoneFenced(i, ok) ==
  /\ Resolves(i, "load", ok)
  /\ notes' = IF \E k \in DOMAIN net : k > i /\ net[k].kind = "load" THEN notes
              ELSE IF ok THEN net[i].data ELSE <<>>
  /\ loadingNotes' = FALSE
  /\ net' = Remove(net, i)
  /\ UNCHANGED <<user, authView, selectedNote, editNote, search, adding, alert, timers>>
  /\ UNCHANGED <<remoteVars, histVars>>
  /\ UNCHANGED ops

\* fetchNotes after its await with the error branch leaving the collection
fetchNotesDoneKeepsOnError(i, ok) ==
  /\ Resolves(i, "load", ok)
  /\ notes' = IF ok THEN net[i].data ELSE notes
  /\ loadingNotes' = FALSE
  /\ net' = Remove(net, i)
  /\ UNCHANGED <<user, authView, selectedNote, editNote, search, adding, alert, timers>>
  /\ UNCHANGED <<remoteVars, histVars>>
  /\ UNCHANGED ops

\* fetchNotes after its await (lines 82-88)
fetchNotesDone(i, ok) ==
  /\ Resolves(i, "load", ok)
  /\ notes' = IF ok THEN net[i].data ELSE <<>>
  /\ loadingNotes' = FALSE
  /\ net' = Remove(net, i)
  /\ UNCHANGED <<user, authView, selectedNote, editNote, search, adding, alert, timers>>
  /\ UNCHANGED <<remoteVars, histVars>>
  /\ UNCHANGED ops

\* handleNoteSave, insert branch, after its await: lines 173-174
insertSucceededKeepsAdding(i) ==
  /\ fetchNotes(Remove(net, i), net[i].owner, net[i].term, acked \cup {net[i].id})
  /\ acked' = acked \cup {net[i].id}
  /\ UNCHANGED <<adding, alert>>

insertSucceeded(i) ==
  /\ adding' = FALSE
  /\ fetchNotes(Remove(net, i), net[i].owner, net[i].term, acked \cup {net[i].id})
  /\ acked' = acked \cup {net[i].id}
  /\ UNCHANGED alert

\* line 176
insertFailed(i) ==
  /\ alert' = ErrorMessage("insert")
  /\ net' = Remove(net, i)
  /\ UNCHANGED <<adding, loadingNotes, acked>>

insertDone(i, ok) ==
  /\ Resolves(i, "insert", ok)
  /\ IF ok THEN insertSucceeded(i) ELSE insertFailed(i)
  /\ UNCHANGED <<user, authView, notes, selectedNote, editNote, search, timers>>
  /\ UNCHANGED <<remoteVars, sinceChange, dbLoads, burst, ops>>

\* handleNoteSave, update branch, after its await: lines 190-191
updateSucceeded(i) ==
  /\ selectedNote' = Merged(selectedNote, net[i].title, net[i].content)
  /\ fetchNotes(Remove(net, i), net[i].owner, net[i].term, acked)
  /\ UNCHANGED alert

\* line 193
updateFailed(i) ==
  /\ alert' = ErrorMessage("update")
  /\ net' = Remove(net, i)
  /\ UNCHANGED <<selectedNote, loadingNotes>>

updateDone(i, ok) ==
  /\ Resolves(i, "update", ok)
  /\ IF ok THEN updateSucceeded(i) ELSE updateFailed(i)
  /\ UNCHANGED <<user, authView, notes, editNote, search, adding, timers>>
  /\ UNCHANGED <<remoteVars, histVars, ops>>

\* handleNoteDelete after its await: lines 208-209
deleteSucceeded(i) ==
  /\ selectedNote' = Null
  /\ fetchNotes(Remove(net, i), net[i].owner, net[i].term, acked)
  /\ UNCHANGED alert

\* the failure branch with the selection cleared all the same
deleteFailedClears(i) ==
  /\ alert' = ErrorMessage("delete")
  /\ selectedNote' = Null
  /\ net' = Remove(net, i)
  /\ UNCHANGED loadingNotes

\* line 211
deleteFailed(i) ==
  /\ alert' = ErrorMessage("delete")
  /\ net' = Remove(net, i)
  /\ UNCHANGED <<selectedNote, loadingNotes>>

deleteDone(i, ok) ==
  /\ Resolves(i, "delete", ok)
  /\ IF ok THEN deleteSucceeded(i) ELSE deleteFailed(i)
  /\ UNCHANGED <<user, authView, notes, editNote, search, adding, timers>>
  /\ UNCHANGED <<remoteVars, histVars, ops>>

\* getUser after its await (line 41), then the effect on [user] (lines 59-63):
\* the user object of a response is a new object, so the effect runs.
getUserDone(i, ok) ==
  /\ Resolves(i, "getUser", ok)
  /\ IF ok /\ net[i].owner # NoUser
       THEN /\ user' = net[i].owner
            /\ fetchNotes(Remove(net, i), net[i].owner, search, acked)
       ELSE /\ net' = Remove(net, i)
            /\ UNCHANGED <<user, loadingNotes>>
  /\ UNCHANGED <<authView, notes, selectedNote, editNote, search, adding, alert, timers>>
  /\ UNCHANGED <<remoteVars, histVars>>
  /\ UNCHANGED ops

\* handleSignIn after its await with the error treated as a sign-in
signInDoneIgnoresError(i, ok) ==
  /\ Resolves(i, "signIn", ok)
  /\ session' = net[i].owner
  /\ user' = net[i].owner
  /\ fetchNotes(Remove(net, i), net[i].owner, search, acked)
  /\ authView' = "sign-in"
  /\ alert' = IF ok THEN alert ELSE ErrorMessage("signIn")
  /\ UNCHANGED <<notes, selectedNote, editNote, search, adding, timers>>
  /\ UNCHANGED <<store, nextId, clock, histVars>>
  /\ UNCHANGED ops

\* handleSignIn after its await: the auth client stores the session and notifies
\* the subscriber (SIGNED_IN, lines 46-52) before signInWithPassword resolves;
\* then line 108. The effect on [user] issues the load.
signInDone(i, ok) ==
  /\ Resolves(i, "signIn", ok)
  /\ IF ok
       THEN /\ session' = net[i].owner
            /\ user' = net[i].owner
            /\ fetchNotes(Remove(net, i), net[i].owner, search, acked)
            /\ authView' = "sign-in"
            /\ UNCHANGED alert
       ELSE /\ alert' = ErrorMessage("signIn")
            /\ net' = Remove(net, i)
            /\ UNCHANGED <<session, user, loadingNotes, authView>>
  /\ UNCHANGED <<notes, selectedNote, editNote, search, adding, timers>>
  /\ UNCHANGED <<store, nextId, clock, histVars>>
  /\ UNCHANGED ops

\* handleSignUp after its await without line 121
signUpDoneKeepsView(i, ok) ==
  /\ Resolves(i, "signUp", ok)
  /\ authView' = authView
  /\ alert' = IF ok THEN "Sign up successful, now you can log in." ELSE ErrorMessage("signUp")
  /\ net' = Remove(net, i)
  /\ UNCHANGED <<user, notes, loadingNotes, selectedNote, editNote, search, adding, timers>>
  /\ UNCHANGED <<remoteVars, histVars>>
  /\ UNCHANGED ops

\* handleSignUp after its await (lines 120-125)
signUpDone(i, ok) ==
  /\ Resolves(i, "signUp", ok)
  /\ authView' = IF ok THEN "sign-in" ELSE authView
  /\ alert' = IF ok THEN "Sign up successful, now you can log in." ELSE ErrorMessage("signUp")
  /\ net' = Remove(net, i)
  /\ UNCHANGED <<user, notes, loadingNotes, selectedNote, editNote, search, adding, timers>>
  /\ UNCHANGED <<remoteVars, histVars>>
  /\ UNCHANGED ops

\* handleLogout after its await (lines 131-133); when signOut succeeded the auth
\* client has dropped the session and notified SIGNED_OUT (lines 47-51) first.
logoutDone(i, ok) ==
  /\ Resolves(i, "signOut", ok)
  /\ session' = IF ok THEN NoUser ELSE session
  /\ user' = NoUser
  /\ notes' = <<>>
  /\ selectedNote' = Null
  /\ net' = Remove(net, i)
  /\ UNCHANGED <<authView, loadingNotes, editNote, search, adding, alert, timers>>
  /\ UNCHANGED <<store, nextId, clock, histVars>>
  /\ UNCHANGED ops

\* ------------------------------------- notifications the auth client sends
\* onAuthStateChange handler with event SIGNED_OUT and no session (expiry)
onSignedOut ==
  /\ session # NoUser
  /\ session' = NoUser
  /\ user' = NoUser
  /\ notes' = <<>>
  /\ selectedNote' = Null
  /\ UNCHANGED <<authView, loadingNotes, editNote, search, adding, alert, timers, net>>
  /\ UNCHANGED <<store, nextId, clock, histVars>>
  /\ CountOp

\* onAuthStateChange handler with the current session (INITIAL_SESSION,
\* TOKEN_REFRESHED): setUser(session.user), then the effect on [user]
onSessionEvent ==
  /\ session # NoUser
  /\ HasRoom
  /\ user' = session
  /\ fetchNotes(net, session, search, acked)
  /\ UNCHANGED <<authView, notes, selectedNote, editNote, search, adding, alert, timers>>
  /\ UNCHANGED <<remoteVars, histVars>>
  /\ CountOp

\* ---------------------------------------------------------------------- Next
Next ==
  \/ \E n \in Range(notes) : handleNoteSelect(n)
  \/ handleNoteAddClick
  \/ \E v \in Titles : handleNoteEditChange("title", v)
  \/ \E v \in Contents : handleNoteEditChange("content", v)
  \/ toggleAuthView
  \/ \E v \in Terms : handleSearchChange(v)
  \/ Tick
  \/ \E t \in timers : TimerFire(t)
  \/ handleNoteSave
  \/ \E c \in BOOLEAN : handleNoteDelete(c)
  \/ handleLogout
  \/ \E u \in Users : handleSignIn(u)
  \/ handleSignUp
  \/ \E i \in DOMAIN net : ServerAccept(i)
  \/ \E i \in DOMAIN net, ok \in BOOLEAN : fetchNotesDone(i, ok)
  \/ \E i \in DOMAIN net, ok \in BOOLEAN : insertDone(i, ok)
  \/ \E i \in DOMAIN net, ok \in BOOLEAN : updateDone(i, ok)
  \/ \E i \in DOMAIN net, ok \in BOOLEAN : deleteDone(i, ok)
  \/ \E i \in DOMAIN net, ok \in BOOLEAN : getUserDone(i, ok)
  \/ \E i \in DOMAIN net, ok \in BOOLEAN : signInDone(i, ok)
  \/ \E i \in DOMAIN net, ok \in BOOLEAN : signUpDone(i, ok)
  \/ \E i \in DOMAIN net, ok \in BOOLEAN : logoutDone(i, ok)
  \/ onSignedOut
  \/ onSessionEvent

Spec == Init /\ [][Next]_vars

\* ===================================================================== claims
BlankTitle(t) == \A k \in DOMAIN t : IsSpace(t[k])
Browsing == selectedNote = Null /\ ~adding
LastMsg == net'[Len(net')]

\* C1: a save of a draft whose title is empty or only whitespace, creating or
\* editing, issues no request and leaves mode, selection and draft as they were.
C1_BlankTitleSaveIssuesNothing ==
  [][(handleNoteSave /\ BlankTitle(editNote.title)) =>
       /\ net' = net
       /\ adding' = adding
       /\ selectedNote' = selectedNote
       /\ editNote' = editNote]_vars

C1_Witness ==
  /\ alert = "Title is required."
  /\ editNote.title = <<" ">>
  /\ EditorShown
  /\ ~adding

\* C2: while search changes follow each other within 300 ms the debounce holds
\* one timer, for the last term; it issues its load only once 300 ms have
\* passed without a change, once, and for the final term.
C2_DebounceTrailingEdge ==
  /\ [](/\ Cardinality(timers) <= 1
        /\ dbLoads <= 1
        /\ \A t \in timers : t.term = search /\ dbLoads = 0
        /\ sinceChange < DebounceMs => timers # {})
  /\ [][/\ search' # search =>
             /\ Cardinality(timers') = 1
             /\ \A t \in timers' : t.left = DebounceMs /\ t.owner = user
             /\ net' = net
        /\ dbLoads' # dbLoads /\ search' = search =>
             /\ sinceChange >= DebounceMs
             /\ dbLoads' = 1
             /\ timers' = {}
             /\ Len(net') = Len(net) + 1
             /\ LastMsg.kind = "load" /\ LastMsg.term = search]_vars

C2_Witness ==
  /\ burst = 2
  /\ dbLoads = 1
  /\ \E k \in DOMAIN net : net[k].kind = "load" /\ net[k].term = search /\ search # <<>>

\* C3: a SIGNED_OUT notification received while authenticated, with a non-empty
\* collection and a selected note, leaves no identity, an empty collection, no
\* selected note and the editor in Browsing.
C3_SignedOutResetsToBrowsing ==
  [][(onSignedOut /\ user # NoUser /\ notes # <<>> /\ selectedNote # Null) =>
       (user' = NoUser /\ notes' = <<>> /\ Browsing')]_vars

\* C4: when handleLogout completes, from any authenticated state, there is no
\* identity, no visible note, no selected note and no draft (empty draft, not
\* creating), and the unauthenticated view is shown.
C4_LogoutClearsSelectionAndDraft ==
  [][\A i \in DOMAIN net, ok \in BOOLEAN :
       (logoutDone(i, ok) /\ user # NoUser) =>
         /\ user' = NoUser
         /\ notes' = <<>>
         /\ selectedNote' = Null
         /\ editNote' = EmptyDraft
         /\ ~adding']_vars

\* C5: while an identity is held, every note of the visible collection is owned
\* by that identity.
C5_VisibleNotesOwnedByIdentity ==
  user # NoUser => \A k \in DOMAIN notes : notes[k].user_id = user

\* what C6 says of a declined confirmation and of the request of a confirmed one
DeleteAsked ==
  /\ handleNoteDelete(FALSE) => UNCHANGED vars
  /\ handleNoteDelete(TRUE) =>
       /\ Len(net') = Len(net) + 1
       /\ LastMsg.kind = "delete" /\ LastMsg.st = "req"
       /\ LastMsg.id = selectedNote.id /\ LastMsg.owner = user
       /\ UNCHANGED <<selectedNote, adding, editNote, notes, store>>
  /\ \A i \in DOMAIN net :
       (ServerAccept(i) /\ net[i].kind = "delete") =>
         /\ store' \subseteq store
         /\ \A r \in store \ store' : r.id = net[i].id /\ r.user_id = net[i].owner

\* C6 as claimed: a declined delete issues nothing and changes nothing; a
\* confirmed one is scoped to the selected note and the identity, and when it
\* succeeds the selection is cleared, the editor is in Browsing and a reload is
\* triggered.
C6_DeleteEndsInBrowsing ==
  [][/\ DeleteAsked
     /\ \A i \in DOMAIN net :
          deleteDone(i, TRUE) =>
            /\ Browsing'
            /\ Len(net') = Len(net)
            /\ LastMsg.kind = "load" /\ LastMsg.st = "req"]_vars

\* C6 amended: as C6, but when the delete succeeds the selection is cleared, a
\* reload is triggered and creating mode is left as it is: the editor is in
\* Browsing unless add-note was invoked while the request was in flight.
C6_DeleteClearsSelection ==
  [][/\ DeleteAsked
     /\ \A i \in DOMAIN net :
          deleteDone(i, TRUE) =>
            /\ selectedNote' = Null
            /\ adding' = adding
            /\ Len(net') = Len(net)
            /\ LastMsg.kind = "load" /\ LastMsg.st = "req"]_vars

C6_Witness ==
  /\ user # NoUser
  /\ Browsing
  /\ \E r \in SeedStore : \A q \in store : q.id # r.id
  /\ \E k \in DOMAIN net : net[k].kind = "load"

\* what C7 says of the create request
CreateAsked ==
  (handleNoteSave /\ adding /\ ~BlankTitle(editNote.title)) =>
    /\ Len(net') = Len(net) + 1
    /\ SubSeq(net', 1, Len(net)) = net
    /\ LastMsg.kind = "insert" /\ LastMsg.st = "req"
    /\ LastMsg.owner = user
    /\ LastMsg.title = editNote.title /\ LastMsg.content = editNote.content

\* C7 as claimed: a save in creating mode with a non-blank title issues one
\* create request with the identity's id and the draft; when its success is
\* processed the editor is in Browsing and a reload is triggered, whatever the
\* user did meanwhile.
C7_CreateEndsInBrowsing ==
  [][/\ CreateAsked
     /\ \A i \in DOMAIN net :
          insertDone(i, TRUE) =>
            /\ Browsing'
            /\ Len(net') = Len(net)
            /\ LastMsg.kind = "load" /\ LastMsg.st = "req"]_vars

\* C7 amended: as C7, but when the success is processed creating mode is off, a
\* reload is triggered and the selection is left as it is: the editor is in
\* Browsing unless a note was selected while the request was in flight.
C7_CreateLeavesCreatingMode ==
  [][/\ CreateAsked
     /\ \A i \in DOMAIN net :
          insertDone(i, TRUE) =>
            /\ ~adding'
            /\ selectedNote' = selectedNote
            /\ Len(net') = Len(net)
            /\ LastMsg.kind = "load" /\ LastMsg.st = "req"]_vars

C7_Witness ==
  /\ user # NoUser
  /\ Browsing
  /\ acked # {}
  /\ \E k \in DOMAIN net : net[k].kind = "load" /\ net[k].seen # {}

\* the title holds the term, case ignored
TitleContains(title, term) ==
  \E k \in 0..Len(title) :
    /\ k + Len(term) <= Len(title)
    /\ \A j \in 1..Len(term) : Lower(title[k + j]) = Lower(term[j])

Ids(rows) == {rows[k].id : k \in DOMAIN rows}

\* C8 as claimed: a load issued after a create was acknowledged, when it
\* completes successfully, shows a collection that includes the created note.
C8_LoadAfterCreateShowsNote ==
  [][\A i \in DOMAIN net :
       fetchNotesDone(i, TRUE) => net[i].seen \subseteq Ids(notes')]_vars

\* C8 amended: a load issued after a create was acknowledged returns the created
\* note if, when the store executes the load, the note exists, is owned by the
\* identity the load is for and its title contains the load's search term (case
\* ignored, an empty term matching all); the visible collection is what the
\* load returned.
C8_LoadAfterCreateShowsMatchingNote ==
  [][\A i \in DOMAIN net :
       /\ (ServerAccept(i) /\ net[i].kind = "load") =>
            \A r \in store :
              (r.id \in net[i].seen /\ r.user_id = net[i].owner
                 /\ TitleContains(r.title, net[i].term))
              => r \in Range(net'[i].data)
       /\ fetchNotesDone(i, TRUE) => notes' = net[i].data]_vars

C8_Witness ==
  /\ user # NoUser
  /\ search # <<>>
  /\ \E k \in DOMAIN notes : notes[k].id \in acked /\ notes[k].title = <<"A">>

\* C9: a save in editing mode with a non-blank title issues an update with the
\* draft and a new updated_at, scoped to the selected note and the identity;
\* when its success is processed the editor shows that same note with the saved
\* title and content, and a reload is triggered.
C9_UpdateEndsViewingSavedNote ==
  [][/\ (handleNoteSave /\ ~adding /\ ~BlankTitle(editNote.title)) =>
          /\ Len(net') = Len(net) + 1
          /\ LastMsg.kind = "update" /\ LastMsg.st = "req"
          /\ LastMsg.id = selectedNote.id /\ LastMsg.owner = user
          /\ LastMsg.title = editNote.title /\ LastMsg.content = editNote.content
          /\ LastMsg.ts > clock
     /\ \A i \in DOMAIN net :
          updateDone(i, TRUE) =>
            /\ selectedNote' # Null /\ ~adding'
            /\ selectedNote'.id = net[i].id
            /\ selectedNote'.title = net[i].title
            /\ selectedNote'.content = net[i].content
            /\ Len(net') = Len(net)
            /\ LastMsg.kind = "load" /\ LastMsg.st = "req"]_vars

\* C10: when a create, update or delete fails, mode, selection, draft and
\* visible collection stay as they were, no reload is triggered and the request
\* is not issued again.
C10_FailedWriteChangesNothing ==
  [][\A i \in DOMAIN net :
       (insertDone(i, FALSE) \/ updateDone(i, FALSE) \/ deleteDone(i, FALSE)) =>
         /\ UNCHANGED <<adding, selectedNote, editNote, notes, store>>
         /\ net' = Remove(net, i)]_vars

C10_Witness ==
  /\ alert = ErrorMessage("delete")
  /\ selectedNote # Null
  /\ ~adding
  /\ net = <<>>
  /\ \E r \in store : r.id = selectedNote.id

\* C11: when a load fails the visible collection becomes empty whatever it
\* held, the load is not issued again (nothing is sent, no timer is set), and
\* selection, creating mode and draft stay as they were.
C11_FailedLoadEmptiesCollection ==
  [][\A i \in DOMAIN net :
       fetchNotesDone(i, FALSE) =>
         /\ notes' = <<>>
         /\ net' = Remove(net, i)
         /\ timers' = timers
         /\ UNCHANGED <<selectedNote, adding, editNote>>]_vars

C11_Witness ==
  /\ user = 1
  /\ notes = <<>>
  /\ selectedNote \in SeedStore
  /\ SeedStore \subseteq store
  /\ ~loadingNotes
  /\ net = <<>>

\* ------------------------------------------------ the edit-and-save scenario
\* The end-to-end scenario of C12: sign in (or the restored session), the load,
\* once it has returned select the first note of the list, edit its content,
\* save; requests succeed.
SaveScenarioNext ==
  \/ handleSignIn(1)
  \/ \E i \in DOMAIN net : signInDone(i, TRUE)
  \/ \E i \in DOMAIN net : getUserDone(i, TRUE)
  \/ \E i \in DOMAIN net : ServerAccept(i)
  \/ \E i \in DOMAIN net : fetchNotesDone(i, TRUE)
  \/ notes # <<>> /\ net = <<>> /\ handleNoteSelect(notes[1])
  \/ \E v \in Contents : selectedNote # Null /\ handleNoteEditChange("content", v)
  \/ selectedNote # Null /\ handleNoteSave
  \/ \E i \in DOMAIN net : updateDone(i, TRUE)

SaveScenario == Init /\ [][SaveScenarioNext]_vars

\* the note the first load lists first, and the other one
NoteA == CHOOSE r \in SeedStore : \A q \in SeedStore : r.updated_at >= q.updated_at
NoteB == CHOOSE r \in SeedStore : r # NoteA

\* a save was issued and everything it set off has completed
SaveCompleted == user # NoUser /\ clock > NoteA.updated_at /\ net = <<>>

\* C12: in the scenario, once the save and the load it re-invokes have
\* completed, the visible collection lists A first, with an updated_at strictly
\* newer than before the save, and B after it, unchanged.
C12_SavedNoteNewerAndFirst ==
  SaveCompleted =>
    /\ Len(notes) = 2
    /\ notes[1].id = NoteA.id
    /\ notes[1].updated_at > NoteA.updated_at
    /\ notes[1].updated_at > notes[2].updated_at
    /\ notes[2] = NoteB

C12_Witness ==
  /\ SaveCompleted
  /\ selectedNote # Null
  /\ notes[1].content # NoteA.content

\* C13: when a sign-in succeeds the identity is set to the one signed in, which
\* shows the authenticated view; when it fails the identity is left as it was
\* (none), no load or other request is issued and the failure reason is shown.
C13_SignInSetsIdentityOrReports ==
  [][\A i \in DOMAIN net :
       /\ signInDone(i, TRUE) =>
            /\ user' = net[i].owner
            /\ user' # NoUser
       /\ signInDone(i, FALSE) =>
            /\ user' = user
            /\ net' = Remove(net, i)
            /\ loadingNotes' = loadingNotes
            /\ alert' = ErrorMessage("signIn")]_vars

C13_Witness ==
  /\ alert = ErrorMessage("signIn")
  /\ user = 2
  /\ session = 2

\* C14: a successful sign-up does not set the identity and leaves the auth view
\* on the sign-in form; a failed one leaves identity and auth view as they were.
\* Neither issues a request.
C14_SignUpDoesNotAuthenticate ==
  [][\A i \in DOMAIN net :
       /\ signUpDone(i, TRUE) =>
            /\ user' = user
            /\ session' = session
            /\ authView' = "sign-in"
            /\ net' = Remove(net, i)
       /\ signUpDone(i, FALSE) =>
            /\ user' = user
            /\ session' = session
            /\ authView' = authView
            /\ net' = Remove(net, i)]_vars

C14_Witness ==
  /\ alert = "Sign up successful, now you can log in."
  /\ authView = "sign-in"
  /\ user = NoUser
  /\ net = <<>>

\* the load requests and responses in flight
LoadsIn(s) == Cardinality({k \in DOMAIN s : s[k].kind = "load"})

\* C15: a step that takes the identity from none to a user issues exactly one
\* load, for that user; and no step issues a load while no identity is held.
C15_OneLoadPerSignInNoneWithoutIdentity ==
  [][/\ (user = NoUser /\ user' # NoUser) =>
          /\ LoadsIn(net') = LoadsIn(net) + 1
          /\ LastMsg.kind = "load" /\ LastMsg.st = "req"
          /\ LastMsg.owner = user'
     /\ LoadsIn(net') > LoadsIn(net) => user' # NoUser]_vars

C17_BrowsingHoldsNoDraft ==
  /\ [](Browsing => editNote = EmptyDraft)
  /\ [][\A i \in DOMAIN net :
          (insertDone(i, TRUE) \/ deleteDone(i, TRUE)) => editNote' = EmptyDraft]_vars

\* C18: selecting a note or pressing add-note, also while a draft is being
\* edited, issues no request and leaves the store and the visible collection
\* unchanged; select makes the note the selection, the draft a copy of its title
\* and content and creating mode off; add makes the draft empty, the selection
\* none and creating mode on.
C18_LeavingEditingDiscardsDraft ==
  [][/\ \A n \in Range(notes) :
          handleNoteSelect(n) =>
            /\ UNCHANGED <<net, store, notes>>
            /\ selectedNote' = n
            /\ editNote' = [title |-> n.title, content |-> n.content]
            /\ ~adding'
     /\ handleNoteAddClick =>
          /\ UNCHANGED <<net, store, notes>>
          /\ selectedNote' = Null
          /\ editNote' = EmptyDraft
          /\ adding']_vars

C18_Witness ==
  /\ alert = "Title is required."
  /\ selectedNote \in SeedStore
  /\ editNote = [title |-> selectedNote.title, content |-> selectedNote.content]
  /\ ~adding
  /\ store = SeedStore
  /\ net = <<>>

\* C19: in every reachable state creating mode excludes a selection, and a
\* selection is a note that carries an id assigned by the store.
C19_CreatingExcludesSelection ==
  /\ adding => selectedNote = Null
  /\ selectedNote # Null => selectedNote.id # NoId

\* C20: in every reachable state where no identity is held the visible
\* collection is empty and no note is selected.
C20_NothingShownWithoutIdentity ==
  user = NoUser => (notes = <<>> /\ selectedNote = Null)

====
